---- MODULE Spec2Model ----
(***************************************************************************)
(* The five scripts of nocoo/noheir under scripts/: the hex -> HSL colour  *)
(* converters (hex_to_hsl.py, update_color.py), the favicon generator      *)
(* (generate_favicon.py), the logo asset generator (generate_logo.py) and  *)
(* the logo colour sampler (extract_logo_color.py).  One run of one script *)
(* is one behaviour: Init picks the script and the environment it runs in  *)
(* (its argument, the files and packages it finds), and each action is one *)
(* statement group of that script.                                         *)
(***************************************************************************)
EXTENDS Integers, Sequences, FiniteSets, TLC

VARIABLES
    script,     \* the script this run executes
    pc,         \* its position
    hex_color,  \* converters: the argument, a sequence of characters
    hsl,        \* converters: the outcome of the call (hex_to_hsl.py:50)
    pilImage,   \* "from PIL import Image" succeeds (generate_favicon.py:89)
    pilDraw,    \* "from PIL import Image, ImageDraw, ImageFont" succeeds
                \* (generate_favicon.py:46)
    dirState,   \* the output directory before the run: missing / dir / file
    source,     \* logo.png: missing, undecodable, truncated, or an image w x h
    writable,   \* the output paths that can be written
    written,    \* the files written so far, in order
    console,    \* the lines printed so far, in order
    error,      \* the uncaught exception that ended the run, or "none"
    i,          \* generate_logo.py: index of the next entry of sizes
    samples     \* extract_logo_color.py: the getpixel calls made so far

vars == <<script, pc, hex_color, hsl, pilImage, pilDraw, dirState, source,
          writable, written, console, error, i, samples>>

----------------------------------------------------------------------------
(* Bounds of the model *)

\* most leading '#' characters of a malformed argument
MaxHashes == 2
\* most characters (after the '#'s) of a malformed argument
MaxBodyLen == 8
\* image widths and heights go up to MaxDimK * DimStep
MaxDimK == 5

----------------------------------------------------------------------------
(* Characters and numbers *)

HexDigits == <<"0","1","2","3","4","5","6","7","8","9","a","b","c","d","e","f">>
UpperDigits == <<"0","1","2","3","4","5","6","7","8","9","A","B","C","D","E","F">>

IsHexDigit(c) == \E k \in 1..16 : HexDigits[k] = c \/ UpperDigits[k] = c

DigitVal(c) == (CHOOSE k \in 1..16 : HexDigits[k] = c \/ UpperDigits[k] = c) - 1

Abs(x) == IF x < 0 THEN -x ELSE x

Max3(a, b, c) == IF a >= b /\ a >= c THEN a ELSE IF b >= c THEN b ELSE c

Min3(a, b, c) == IF a <= b /\ a <= c THEN a ELSE IF b <= c THEN b ELSE c

NoValue == [err |-> "ValueError", val |-> 0]

\* str.lstrip('#'): every leading '#' is removed, not just one.
RECURSIVE lstrip(_)
lstrip(s) == IF s # <<>> /\ Head(s) = "#" THEN lstrip(Tail(s)) ELSE s

\* s[a:b] of Python, 0-based and half-open: a slice past the end is cut
\* short, it does not fail.
Slice(s, a, b) == SubSeq(s, a + 1, IF b < Len(s) THEN b ELSE Len(s))

RECURSIVE StripSpaces(_)
StripSpaces(s) ==
    IF s = <<>> THEN s
    ELSE IF Head(s) = " " THEN StripSpaces(Tail(s))
    ELSE IF s[Len(s)] = " " THEN StripSpaces(SubSeq(s, 1, Len(s) - 1))
    ELSE s

RECURSIVE DigitsVal(_)
DigitsVal(s) ==
    IF s = <<>> THEN 0 ELSE 16 * DigitsVal(SubSeq(s, 1, Len(s) - 1)) + DigitVal(s[Len(s)])

\* int(text, 16) on a slice of at most two characters: surrounding
\* whitespace is ignored, one sign is accepted, and what is left must be
\* one or more hex digits.  (The "0x" prefix and the "_" separator of
\* Python's grammar need three characters to be accepted, so on these
\* slices they are errors.)
int16(s) ==
    LET t == StripSpaces(s)
        signed == t # <<>> /\ Head(t) \in {"+", "-"}
        d == IF signed THEN Tail(t) ELSE t
    IN  IF d = <<>> \/ \E k \in 1..Len(d) : ~IsHexDigit(d[k])
        THEN NoValue
        ELSE [err |-> "none",
              val |-> IF signed /\ Head(t) = "-" THEN -DigitsVal(d) ELSE DigitsVal(d)]

\* A variant of round that truncates, as int(x) would.
round_trunc(num, den) ==
    {(IF den < 0 THEN -num ELSE num) \div Abs(den)}

\* round(x) of Python for x = num / den computed in double precision:
\* the nearest integer.  Python rounds an exact half to the even
\* neighbour, but x carries the rounding error of the divisions before it,
\* so where num / den is exactly k + 1/2 the double lies on either side
\* ("#002748" has hue 207.5 and prints 207, "#002803" has hue 124.5 and
\* prints 125): both neighbours are outcomes.
round(num, den) ==
    LET n == IF den < 0 THEN -num ELSE num
        d == Abs(den)
        q == n \div d
        r == n % d
    IN  IF 2 * r = d THEN {q, q + 1}
        ELSE IF 2 * r > d THEN {q + 1} ELSE {q}

----------------------------------------------------------------------------
(* hex_to_hsl.py and update_color.py: the converter *)

\* f"{h} {s}% {l}%"
FormatHsl(h, s, l) == ToString(h) \o " " \o ToString(s) \o "% " \o ToString(l) \o "%"

Raised(name) == [raised |-> name, h |-> 0, s |-> 0, l |-> 0, text |-> ""]

Returned(h, s, l) == [raised |-> "none", h |-> h, s |-> s, l |-> l, text |-> FormatHsl(h, s, l)]

\* The hue in degrees as the fraction num / den, from the channels r, g, b
\* (each the numerator over 255).
Hue(r, g, b) ==
    LET max_c == Max3(r, g, b)
        min_c == Min3(r, g, b)
        delta == max_c - min_c
    IN  IF delta = 0 THEN <<0, 1>>
        ELSE IF max_c = r THEN <<60 * ((g - b) % (6 * delta)), delta>>
        ELSE IF max_c = g THEN <<60 * ((b - r) + 2 * delta), delta>>
        ELSE <<60 * ((r - g) + 4 * delta), delta>>

\* 100 * l as the fraction num / den, l = (max_c + min_c) / 2.
Lightness(r, g, b) == <<100 * (Max3(r, g, b) + Min3(r, g, b)), 510>>

\* A variant of Saturation with the HSV formula, s = delta / max_c.
Saturation_hsv(r, g, b) ==
    IF Max3(r, g, b) = Min3(r, g, b) THEN <<0, 1>>
    ELSE <<100 * (Max3(r, g, b) - Min3(r, g, b)), Max3(r, g, b)>>

\* 100 * s as the fraction num / den, s = delta / (1 - abs(2 * l - 1));
\* den = 0 is the division by zero.
Saturation(r, g, b) ==
    LET max_c == Max3(r, g, b)
        min_c == Min3(r, g, b)
        delta == max_c - min_c
    IN  IF delta = 0 THEN <<0, 1>>
        ELSE <<100 * delta, 255 - Abs(max_c + min_c - 255)>>

\* The outcomes of the conversion of the parsed channels.
RgbToHsl(r, g, b) ==
    LET hue == Hue(r, g, b)
        lig == Lightness(r, g, b)
        sat == Saturation(r, g, b)
    IN  IF sat[2] = 0 THEN {Raised("ZeroDivisionError")}
        ELSE {Returned(h, s, l) : h \in round(hue[1], hue[2]),
                                  s \in round(sat[1], sat[2]),
                                  l \in round(lig[1], lig[2])}

\* hex_to_hsl(hex_color) of hex_to_hsl.py: the set of its outcomes.
hex_to_hsl(hex) ==
    LET t == lstrip(hex)
        r == int16(Slice(t, 0, 2))
        g == int16(Slice(t, 2, 4))
        b == int16(Slice(t, 4, 6))
    IN  IF r.err # "none" \/ g.err # "none" \/ b.err # "none"
        THEN {Raised("ValueError")}
        ELSE RgbToHsl(r.val, g.val, b.val)

\* hex_to_hsl_hex(hex_color) of update_color.py: the same body.
hex_to_hsl_hex(hex) ==
    LET t == lstrip(hex)
        r == int16(Slice(t, 0, 2))
        g == int16(Slice(t, 2, 4))
        b == int16(Slice(t, 4, 6))
    IN  IF r.err # "none" \/ g.err # "none" \/ b.err # "none"
        THEN {Raised("ValueError")}
        ELSE RgbToHsl(r.val, g.val, b.val)

----------------------------------------------------------------------------
(* The environment of a run *)

\* the '100' of getpixel((100, 100)) and of img.width - 100
Inset == 100
\* size = 64 of generate_favicon_png
FaviconSize == 64
\* spacing of the sampled image widths and heights
DimStep == 50

Dims == {1, Inset - 1, Inset, Inset + 1} \cup {k * DimStep : k \in 1..MaxDimK}

Image(w, h) == [kind |-> "image", w |-> w, h |-> h]
NoImage(kind) == [kind |-> kind, w |-> 0, h |-> 0]

\* logo.png as the sampler finds it
SamplerSources ==
    {NoImage("missing"), NoImage("undecodable")} \cup {Image(w, h) : w \in Dims, h \in Dims}

\* logo.png as the asset generator finds it: square and not square
LogoSources ==
    {NoImage("missing"), NoImage("undecodable"), NoImage("truncated")}
    \cup {Image(w, w) : w \in Dims} \cup {Image(w, Inset) : w \in Dims}

\* channel values of the sampled colours
ChanSample == {17 * k : k \in 0..15}
              \cup {1, 2, 39, 59, 72, 88, 90, 127, 128, 148, 149, 254}

\* two-character channel fields of the sampled malformed arguments
Fields == {<<"3","b">>, <<"F","0">>, <<"+","f">>, <<"-","f">>, <<" ","f">>,
           <<"f"," ">>, <<"g","0">>}

Hashes(n) == [k \in 1..n |-> "#"]

Hex2(v) == <<HexDigits[(v \div 16) + 1], HexDigits[(v % 16) + 1]>>

\* "rrggbb" and "#rrggbb": every gray and the sampled colours
WellFormedArgs ==
    {Hashes(n) \o Hex2(c[1]) \o Hex2(c[2]) \o Hex2(c[3]) :
        n \in 0..1,
        c \in {<<v, v, v>> : v \in 0..255} \cup (ChanSample \X ChanSample \X ChanSample)}

\* any number of '#', then a prefix of three fields and an alpha tail
OtherArgs ==
    {Hashes(n) \o Slice(f[1] \o f[2] \o f[3] \o <<"a","a","0","0">>, 0, k) :
        n \in 0..MaxHashes, f \in Fields \X Fields \X Fields, k \in 0..MaxBodyLen}

Args == WellFormedArgs \cup OtherArgs

NotCalled == Raised("pending")

FaviconPaths == {"public/favicon.svg", "public/favicon-64x64.png", "public/favicon.ico"}

LogoPaths == {"public/logo/logo-32.png", "public/logo/logo-64.png",
              "public/logo/logo-128.png", "public/logo/logo-256.png",
              "public/favicon-new.ico"}

DirStates == {"missing", "dir", "file"}

InitConverter ==
    /\ script \in {"hex_to_hsl.py", "update_color.py"}
    /\ pc = "call"
    /\ hex_color \in Args
    /\ hsl = NotCalled
    /\ pilImage = FALSE /\ pilDraw = FALSE /\ dirState = "dir"
    /\ source = NoImage("missing") /\ writable = {}

InitFavicon ==
    /\ script = "generate_favicon.py"
    /\ pc = "mkdir"
    /\ hex_color = <<>> /\ hsl = NotCalled
    /\ pilImage \in BOOLEAN
    /\ pilDraw \in BOOLEAN
    /\ pilDraw => pilImage
    /\ dirState \in DirStates
    /\ source = NoImage("missing")
    /\ writable \in SUBSET FaviconPaths

InitLogo ==
    /\ script = "generate_logo.py"
    /\ pc = "makedirs"
    /\ hex_color = <<>> /\ hsl = NotCalled
    /\ pilImage = TRUE /\ pilDraw = TRUE
    /\ dirState \in DirStates
    /\ source \in LogoSources
    /\ writable \in SUBSET LogoPaths

InitSampler ==
    /\ script = "extract_logo_color.py"
    /\ pc = "open"
    /\ hex_color = <<>> /\ hsl = NotCalled
    /\ pilImage = TRUE /\ pilDraw = TRUE
    /\ dirState = "dir"
    /\ source \in SamplerSources
    /\ writable = {}

Init ==
    /\ InitConverter \/ InitFavicon \/ InitLogo \/ InitSampler
    /\ written = <<>>
    /\ console = <<>>
    /\ error = "none"
    /\ i = 1
    /\ samples = <<>>

Env == <<script, hex_color, pilImage, pilDraw, dirState, source, writable>>

\* An uncaught exception ends the run where it is raised.
Crash(name) ==
    /\ error' = name
    /\ pc' = "crashed"

File(path, kind, w, h, frames) ==
    [path |-> path, kind |-> kind, w |-> w, h |-> h, sizes |-> frames]

----------------------------------------------------------------------------
(* hex_to_hsl.py, update_color.py: one call of the converter *)

\* hsl = hex_to_hsl(hex_color); print(... hsl)
CallHexToHsl ==
    /\ script = "hex_to_hsl.py"
    /\ pc = "call"
    /\ hsl' \in hex_to_hsl(hex_color)
    /\ IF hsl'.raised = "none"
       THEN /\ pc' = "done"
            /\ console' = Append(console, hsl'.text)
            /\ UNCHANGED error
       ELSE /\ Crash(hsl'.raised)
            /\ UNCHANGED console
    /\ UNCHANGED <<Env, written, i, samples>>

\* hsl = hex_to_hsl_hex(new_primary); print("HSL: " + hsl)
CallHexToHslHex ==
    /\ script = "update_color.py"
    /\ pc = "call"
    /\ hsl' \in hex_to_hsl_hex(hex_color)
    /\ IF hsl'.raised = "none"
       THEN /\ pc' = "done"
            /\ console' = Append(console, hsl'.text)
            /\ UNCHANGED error
       ELSE /\ Crash(hsl'.raised)
            /\ UNCHANGED console
    /\ UNCHANGED <<Env, written, i, samples>>

----------------------------------------------------------------------------
(* generate_favicon.py: main() *)

SvgPath == "public/favicon.svg"
PngPath == "public/favicon-64x64.png"
IcoPath == "public/favicon.ico"

\* generate_favicon_png(): the 64 x 64 bitmap, or None (here: no image)
\* when its own import of PIL fails.
generate_favicon_png ==
    IF pilDraw THEN Image(FaviconSize, FaviconSize) ELSE NoImage("None")

\* the sizes argument of img.save(ico_path, format='ICO', ...)
FaviconIcoSizes == << <<32, 32>>, <<64, 64>> >>

\* output_dir.mkdir(exist_ok=True)
FaviconMkdir ==
    /\ script = "generate_favicon.py"
    /\ pc = "mkdir"
    /\ IF dirState = "file"
       THEN Crash("FileExistsError")
       ELSE pc' = "svg" /\ UNCHANGED error
    /\ UNCHANGED <<Env, hsl, written, console, i, samples>>

\* svg_path.write_text(generate_favicon_svg()); print
FaviconSvg ==
    /\ script = "generate_favicon.py"
    /\ pc = "svg"
    /\ IF SvgPath \in writable
       THEN /\ written' = Append(written, File(SvgPath, "SVG", 64, 64, <<>>))
            /\ console' = Append(console, "Generated SVG favicon")
            /\ pc' = "import"
            /\ UNCHANGED error
       ELSE /\ Crash("OSError")
            /\ UNCHANGED <<written, console>>
    /\ UNCHANGED <<Env, hsl, i, samples>>

\* A variant of FaviconImport that does not catch the ImportError.
FaviconImport_uncaught ==
    /\ script = "generate_favicon.py"
    /\ pc = "import"
    /\ IF pilImage
       THEN pc' = "png_gen" /\ UNCHANGED error
       ELSE Crash("ImportError")
    /\ UNCHANGED <<Env, hsl, written, console, i, samples>>

\* try: from PIL import Image ... except ImportError: print
FaviconImport ==
    /\ script = "generate_favicon.py"
    /\ pc = "import"
    /\ IF pilImage
       THEN pc' = "png_gen" /\ UNCHANGED console
       ELSE /\ pc' = "complete"
            /\ console' = Append(console, "PIL not available, only SVG favicon generated")
    /\ UNCHANGED <<Env, hsl, written, error, i, samples>>

\* png_data = generate_favicon_png(); if png_data:
FaviconPngData ==
    /\ script = "generate_favicon.py"
    /\ pc = "png_gen"
    /\ pc' = IF generate_favicon_png.kind = "image" THEN "png_write" ELSE "complete"
    /\ UNCHANGED <<Env, hsl, written, console, error, i, samples>>

\* png_path.write_bytes(png_data); print
FaviconPng ==
    /\ script = "generate_favicon.py"
    /\ pc = "png_write"
    /\ IF PngPath \in writable
       THEN /\ written' = Append(written,
                File(PngPath, "PNG", generate_favicon_png.w, generate_favicon_png.h, <<>>))
            /\ console' = Append(console, "Generated PNG favicon")
            /\ pc' = "ico"
            /\ UNCHANGED error
       ELSE /\ Crash("OSError")
            /\ UNCHANGED <<written, console>>
    /\ UNCHANGED <<Env, hsl, i, samples>>

\* img = Image.open(io.BytesIO(png_data)): main() has no name io (the
\* module imports base64 and Path, and the "import io" of
\* generate_favicon_png is local to that function), so this raises
\* NameError, which "except ImportError" does not catch.  The img.save of
\* favicon.ico after it is never executed.
FaviconIco ==
    /\ script = "generate_favicon.py"
    /\ pc = "ico"
    /\ Crash("NameError")
    /\ UNCHANGED <<Env, hsl, written, console, i, samples>>

\* print("Favicon generation complete!")
FaviconComplete ==
    /\ script = "generate_favicon.py"
    /\ pc = "complete"
    /\ console' = Append(console, "Favicon generation complete!")
    /\ pc' = "done"
    /\ UNCHANGED <<Env, hsl, written, error, i, samples>>

----------------------------------------------------------------------------
(* generate_logo.py: the module body *)

\* sizes = {"32": (32, 32), ...}: a dict iterates in insertion order
sizes == << [name |-> "32", size |-> <<32, 32>>],
            [name |-> "64", size |-> <<64, 64>>],
            [name |-> "128", size |-> <<128, 128>>],
            [name |-> "256", size |-> <<256, 256>>] >>

ico_sizes == << <<16, 16>>, <<32, 32>>, <<64, 64>> >>

ico_path == "public/favicon-new.ico"

\* os.path.join(output_dir, f"logo-{name}.png")
output_path(name) == "public/logo/logo-" \o name \o ".png"

\* A variant of Resize that keeps the source's aspect ratio, as
\* img.thumbnail(size) would.
Resize_thumbnail(img, size) ==
    IF img.w >= img.h
    THEN Image(size[1], IF (size[1] * img.h) \div img.w < 1 THEN 1
                        ELSE (size[1] * img.h) \div img.w)
    ELSE Image(IF (size[2] * img.w) \div img.h < 1 THEN 1
               ELSE (size[2] * img.w) \div img.h, size[2])

\* img.resize(size, Image.Resampling.LANCZOS): a new image of exactly the
\* requested size, whatever the size of img.
Resize(img, size) == Image(size[1], size[2])

\* os.makedirs(output_dir, exist_ok=True)
LogoMakedirs ==
    /\ script = "generate_logo.py"
    /\ pc = "makedirs"
    /\ IF dirState = "file"
       THEN Crash("FileExistsError")
       ELSE pc' = "open" /\ UNCHANGED error
    /\ UNCHANGED <<Env, hsl, written, console, i, samples>>

\* img = Image.open(original_logo)
LogoOpen ==
    /\ script = "generate_logo.py"
    /\ pc = "open"
    /\ IF source.kind = "missing" THEN Crash("FileNotFoundError")
       ELSE IF source.kind = "undecodable" THEN Crash("UnidentifiedImageError")
       ELSE pc' = "resize" /\ UNCHANGED error
    /\ UNCHANGED <<Env, hsl, written, console, i, samples>>

\* A variant of LogoSave that skips an output it cannot write and goes on.
LogoSave_keepgoing ==
    /\ script = "generate_logo.py"
    /\ pc = "resize"
    /\ source.kind = "image"
    /\ LET e == sizes[i]
           resized == Resize(source, e.size)
       IN  IF output_path(e.name) \in writable
           THEN /\ written' = Append(written,
                        File(output_path(e.name), "PNG", resized.w, resized.h, <<>>))
                /\ console' = Append(console, "Generated: " \o output_path(e.name))
           ELSE UNCHANGED <<written, console>>
    /\ i' = i + 1
    /\ pc' = IF i = Len(sizes) THEN "ico" ELSE "resize"
    /\ UNCHANGED <<Env, hsl, error, samples>>

\* One iteration of "for name, size in sizes.items()": resize, save, print.
\* The pixel data is read at the first resize, where a truncated file fails.
LogoSave ==
    /\ script = "generate_logo.py"
    /\ pc = "resize"
    /\ LET e == sizes[i]
           resized == Resize(source, e.size)
       IN  IF source.kind = "truncated"
           THEN Crash("OSError") /\ UNCHANGED <<written, console, i>>
           ELSE IF output_path(e.name) \in writable
           THEN /\ written' = Append(written,
                        File(output_path(e.name), "PNG", resized.w, resized.h, <<>>))
                /\ console' = Append(console, "Generated: " \o output_path(e.name))
                /\ i' = i + 1
                /\ pc' = IF i = Len(sizes) THEN "ico" ELSE "resize"
                /\ UNCHANGED error
           ELSE Crash("OSError") /\ UNCHANGED <<written, console, i>>
    /\ UNCHANGED <<Env, hsl, samples>>

\* img.save(ico_path, format="ICO", sizes=ico_sizes); print
LogoIco ==
    /\ script = "generate_logo.py"
    /\ pc = "ico"
    /\ IF ico_path \in writable
       THEN /\ written' = Append(written, File(ico_path, "ICO", source.w, source.h, ico_sizes))
            /\ console' = Append(console, "Generated: " \o ico_path)
            /\ pc' = "complete"
            /\ UNCHANGED error
       ELSE Crash("OSError") /\ UNCHANGED <<written, console>>
    /\ UNCHANGED <<Env, hsl, i, samples>>

\* print("All logos generated successfully!")
LogoComplete ==
    /\ script = "generate_logo.py"
    /\ pc = "complete"
    /\ console' = Append(console, "All logos generated successfully!")
    /\ pc' = "done"
    /\ UNCHANGED <<Env, hsl, written, error, i, samples>>

----------------------------------------------------------------------------
(* extract_logo_color.py: the module body *)

\* Image.getpixel((x, y)) on an image of w x h: a negative coordinate counts
\* from the far edge, and a coordinate outside the image raises IndexError.
InsideImage(x, y, img) ==
    LET xx == IF x < 0 THEN img.w + x ELSE x
        yy == IF y < 0 THEN img.h + y ELSE y
    IN  0 <= xx /\ xx < img.w /\ 0 <= yy /\ yy < img.h

\* One call name = img.getpixel((x, y)), then on to the statement next.
GetPixel(name, x, y, img, next) ==
    /\ samples' = Append(samples, [name |-> name, x |-> x, y |-> y, w |-> img.w, h |-> img.h])
    /\ IF InsideImage(x, y, img)
       THEN pc' = next /\ UNCHANGED error
       ELSE Crash("IndexError")

\* img = Image.open("logo.png")
SamplerOpen ==
    /\ script = "extract_logo_color.py"
    /\ pc = "open"
    /\ IF source.kind = "missing" THEN Crash("FileNotFoundError")
       ELSE IF source.kind = "undecodable" THEN Crash("UnidentifiedImageError")
       ELSE pc' = "average" /\ UNCHANGED error
    /\ UNCHANGED <<Env, hsl, written, console, i, samples>>

\* small_img = img.resize((1, 1)); avg_color = small_img.getpixel((0, 0))
SamplerAverage ==
    /\ script = "extract_logo_color.py"
    /\ pc = "average"
    /\ GetPixel("avg_color", 0, 0, Resize(source, <<1, 1>>), "top_left")
    /\ UNCHANGED <<Env, hsl, written, console, i>>

\* top_left = img.getpixel((100, 100))
SamplerTopLeft ==
    /\ script = "extract_logo_color.py"
    /\ pc = "top_left"
    /\ GetPixel("top_left", Inset, Inset, source, "bottom_right")
    /\ UNCHANGED <<Env, hsl, written, console, i>>

\* bottom_right = img.getpixel((img.width - 100, img.height - 100))
SamplerBottomRight ==
    /\ script = "extract_logo_color.py"
    /\ pc = "bottom_right"
    /\ GetPixel("bottom_right", source.w - Inset, source.h - Inset, source, "center")
    /\ UNCHANGED <<Env, hsl, written, console, i>>

\* center = img.getpixel((img.width // 2, img.height // 2))
SamplerCenter ==
    /\ script = "extract_logo_color.py"
    /\ pc = "center"
    /\ GetPixel("center", source.w \div 2, source.h \div 2, source, "print")
    /\ UNCHANGED <<Env, hsl, written, console, i>>

\* the print statements of the four colours, as rgb(...) and as #rrggbb
SamplerPrint ==
    /\ script = "extract_logo_color.py"
    /\ pc = "print"
    /\ console' = console \o <<"Average", "Top-left", "Bottom-right", "Center">>
    /\ pc' = "done"
    /\ UNCHANGED <<Env, hsl, written, error, i, samples>>

----------------------------------------------------------------------------

Next ==
    \/ CallHexToHsl
    \/ CallHexToHslHex
    \/ FaviconMkdir
    \/ FaviconSvg
    \/ FaviconImport
    \/ FaviconPngData
    \/ FaviconPng
    \/ FaviconIco
    \/ FaviconComplete
    \/ LogoMakedirs
    \/ LogoOpen
    \/ LogoSave
    \/ LogoIco
    \/ LogoComplete
    \/ SamplerOpen
    \/ SamplerAverage
    \/ SamplerTopLeft
    \/ SamplerBottomRight
    \/ SamplerCenter
    \/ SamplerPrint

Spec == Init /\ [][Next]_vars

----------------------------------------------------------------------------
(* Properties *)

Range(seq) == {seq[k] : k \in DOMAIN seq}

Paths(files) == [k \in DOMAIN files |-> files[k].path]

IsPrefix(a, b) == Len(a) <= Len(b) /\ SubSeq(b, 1, Len(a)) = a

StripOne(s) == IF s # <<>> /\ Head(s) = "#" THEN Tail(s) ELSE s

\* exactly six hexadecimal digits after one optional leading '#'
ValidHex(s) == Len(StripOne(s)) = 6 /\ \A k \in 1..6 : IsHexDigit(StripOne(s)[k])

\* the channels a valid argument denotes
Channels(s) ==
    <<DigitsVal(SubSeq(StripOne(s), 1, 2)), DigitsVal(SubSeq(StripOne(s), 3, 4)),
      DigitsVal(SubSeq(StripOne(s), 5, 6))>>

Converted == script \in {"hex_to_hsl.py", "update_color.py"} /\ pc # "call"

FaviconRun == script = "generate_favicon.py"
LogoRun == script = "generate_logo.py"
SamplerRun == script = "extract_logo_color.py"

ThreeFrames == {<<16, 16>>, <<32, 32>>, <<64, 64>>}

\* C1: for every valid 6-digit hex argument, with or without '#', the
\* converter returns (no arithmetic error) integers with hue in [0,360),
\* saturation in [0,100] and lightness in [0,100].
C1_HslInRange ==
    Converted /\ ValidHex(hex_color) =>
        /\ hsl.raised = "none"
        /\ hsl.h \in 0..359
        /\ hsl.s \in 0..100
        /\ hsl.l \in 0..100

Primary == <<"#", "3", "b", "5", "8", "9", "4">>

\* C2 as stated: hex_to_hsl("#3b5894") returns "223 42% 40%".
C2_Original ==
    script = "hex_to_hsl.py" /\ pc # "call" /\ hex_color = Primary =>
        hsl.raised = "none" /\ hsl.text = "223 42% 40%"

\* C2, amended: hex_to_hsl("#3b5894") returns exactly "220 43% 41%", the
\* value of the documented algorithm (hue 220.45, saturation 42.99 %,
\* lightness 40.59 %).
C2_Primary ==
    script = "hex_to_hsl.py" /\ pc # "call" /\ hex_color = Primary =>
        hsl.raised = "none" /\ hsl.text = "220 43% 41%"

C2_Witness == script = "hex_to_hsl.py" /\ pc = "done" /\ hex_color = Primary

\* C3: for every argument that is not exactly six hex digits after one
\* leading '#' is stripped, the converter fails with a parse error and
\* returns no HSL string.
C3_ParseError ==
    Converted /\ ~ValidHex(hex_color) => hsl.raised = "ValueError"

C5_RasterRunCompletes ==
    FaviconRun /\ pilDraw /\ dirState # "file" /\ writable = FaviconPaths =>
        /\ error = "none"
        /\ pc = "done" => Paths(written) = <<SvgPath, PngPath, IcoPath>>
        /\ pc # "done" => ENABLED Next

\* the sizes the labels logo-32 ... logo-256 declare
LabelledSizes == <<32, 64, 128, 256>>

\* C6: a completed logo run has written exactly the four PNGs logo-32,
\* logo-64, logo-128 and logo-256, each of the width and height its label
\* names whatever the size of the source, and then the one bundle
\* favicon-new.ico requested with the frames 16, 32 and 64; and creating
\* the output directory fails neither when it is missing nor when it exists.
C6_LogoOutputs ==
    LogoRun =>
        /\ dirState \in {"missing", "dir"} => error # "FileExistsError"
        /\ pc = "done" =>
            /\ Len(written) = 5
            /\ \A k \in 1..4 :
                written[k] = File("public/logo/logo-" \o ToString(LabelledSizes[k]) \o ".png",
                                  "PNG", LabelledSizes[k], LabelledSizes[k], <<>>)
            /\ written[5].path = "public/favicon-new.ico"
            /\ written[5].kind = "ICO"
            /\ Len(written[5].sizes) = 3
            /\ Range(written[5].sizes) = ThreeFrames

C6_Witness ==
    LogoRun /\ pc = "done" /\ source.w # source.h /\ dirState = "dir" /\ Len(written) = 5

LogoOrder == <<"public/logo/logo-32.png", "public/logo/logo-64.png",
               "public/logo/logo-128.png", "public/logo/logo-256.png",
               "public/favicon-new.ico">>

\* C7, the states: the files of a logo run are written in the fixed order;
\* a run that failed writing has written exactly the outputs before the
\* first unwritable one; a run whose source is missing or undecodable has
\* written nothing.
C7_States ==
    LogoRun =>
        /\ Len(written) <= 5
        /\ \A k \in DOMAIN written :
            /\ written[k].path = LogoOrder[k]
            /\ \A j \in 1..k : LogoOrder[j] \in writable
        /\ source.kind # "image" => written = <<>>
        /\ error = "OSError" /\ source.kind = "image" =>
            /\ Len(written) < 5
            /\ LogoOrder[Len(written) + 1] \notin writable
        /\ error = "none" /\ pc = "done" => Len(written) = 5

\* C7, the steps: a failed run takes no further step, and a step never
\* removes or changes a file already written.
C7_Steps == LogoRun => pc # "crashed" /\ IsPrefix(written, written')

\* C7: outputs are written in the order logo-32, logo-64, logo-128,
\* logo-256, favicon-new.ico; when writing the k-th fails the run stops
\* there, what was written before stays as it is and nothing later is
\* written; with the source missing or undecodable nothing is written.
C7_FailStop == [] C7_States /\ [][C7_Steps]_vars

C7_Witness ==
    LogoRun /\ error = "OSError" /\ source.kind = "image" /\ Len(written) = 2

\* C8: for every source image of at least 1 x 1, the top-left, center and
\* bottom-right samples are read at coordinates inside the image, and
\* sampling does not fail.
C8_SamplesInside ==
    SamplerRun /\ source.kind = "image" =>
        /\ error # "IndexError"
        /\ \A k \in DOMAIN samples :
            /\ 0 <= samples[k].x /\ samples[k].x < samples[k].w
            /\ 0 <= samples[k].y /\ samples[k].y < samples[k].h

\* C9: for every gray argument (R = G = B = v) the converter takes the
\* delta = 0 branch of the hue and of the saturation and returns
\* "0 0% L%" with L = 100 * v / 255 rounded to the nearest integer;
\* "#ffffff" gives "0 0% 100%" and "#000000" gives "0 0% 0%".
C9_Gray ==
    Converted /\ ValidHex(hex_color) =>
        LET c == Channels(hex_color)
            L == (200 * c[1] + 255) \div 510
        IN  /\ c[1] = c[2] /\ c[2] = c[3] =>
                /\ hsl.raised = "none"
                /\ hsl.h = 0 /\ hsl.s = 0 /\ hsl.l = L
                /\ hsl.text = "0 0% " \o ToString(L) \o "%"
                /\ Hue(c[1], c[2], c[3]) = <<0, 1>>
                /\ Saturation(c[1], c[2], c[3]) = <<0, 1>>
            /\ c = <<255, 255, 255>> => hsl.text = "0 0% 100%"
            /\ c = <<0, 0, 0>> => hsl.text = "0 0% 0%"

C9_Witness ==
    /\ Converted
    /\ hex_color = <<"#", "8", "0", "8", "0", "8", "0">>
    /\ hsl.text = "0 0% 50%"

\* C10: every icon bundle a script writes, favicon-new.ico of the logo
\* generator and favicon.ico of the favicon generator, is requested with
\* exactly the frame sizes 16x16, 32x32 and 64x64.
C10_IcoFrames ==
    /\ \A k \in DOMAIN written :
        written[k].kind = "ICO" => Range(written[k].sizes) = ThreeFrames
    /\ LogoRun /\ pc = "ico" => Range(ico_sizes) = ThreeFrames
    /\ FaviconRun /\ pc = "ico" => Range(FaviconIcoSizes) = ThreeFrames

====
